---- MODULE Spec2Model ----
(***************************************************************************)
(* Model of pyquote.py: StockQuoteUpdater, which resolves each ticker of   *)
(* a fixed list to a stocks row, downloads its minute quotes in 7-day      *)
(* sub-windows, inserts the quotes that are not yet stored and sets the    *)
(* stock's lastUpdate to the newest stored timestamp.                      *)
(*                                                                         *)
(* One action is one external call of the code (a store statement with its *)
(* commit, a provider call) together with the local assignments that       *)
(* follow it up to the next external call.  The store (stocks, quotes) and *)
(* the clock are shared; every updater process has its own record in u.    *)
(***************************************************************************)
EXTENDS Integers, Sequences, FiniteSets, Bags, TLC

VARIABLES
    stocks,     \* table stocks: sequence of rows, a row's id is its index
    quotes,     \* table quotes: bag of rows [stock, price, timestamp]
    now,        \* the wall clock read by datetime.now(), in days
    u,          \* per process: the StockQuoteUpdater object and the locals of run/_fetch_quotes
    runs,       \* number of processes started so far
    first,      \* history: for each quote key, the row that was written first
    lost,       \* history: quote keys the provider returned in runs that aborted
    ids         \* history: per ticker, the id its first successful _get_stock_id returned

vars == <<stocks, quotes, now, u, runs, first, lost, ids>>

-----------------------------------------------------------------------------
(* Bounds of the model *)

NumTickers == 2     \* length of the prefix of the ticker list that is processed
MaxRuns == 2        \* processes started one after the other
MaxTs == 2          \* distinct quote timestamps the provider can return
MaxPoints == 2      \* rows in one downloaded frame
MaxNow == 1         \* days the clock can advance

-----------------------------------------------------------------------------
(* Program constants *)

AllTickers == <<"AA", "AAL", "AAPL", "ACET">>
tickers == SubSeq(AllTickers, 1, NumTickers)

chunk_size == 7
MaxDays == 28
DefaultDays == 28

Null == 0                       \* SQL NULL / Python None for ids and timestamps
Missing == "<missing>"          \* a key that is not in the info dict
None == "<None>"                \* a key that is in the dict with value None
Unset == -1                     \* exit status of a process that has not ended

Runners == {1, 2}
Timestamps == 1..MaxTs
RawPrices == {150123449, 150999999}     \* closing prices, in millionths

-----------------------------------------------------------------------------
(* Pure helpers *)

Min(a, b) == IF a < b THEN a ELSE b

\* float(close_price): the sign of the error of the double nearest to
\* raw / 10^6 (1: the double is above, -1: below, 0: exact).  The double keeps
\* 53 significant bits, rounded half to even; the bits below the last kept one
\* are found by doubling the remainder of raw modulo 10^6.
RECURSIVE Log2Floor(_, _)
Log2Floor(raw, e) ==        \* floor(log2(raw / 10^6)), for raw > 0, counted from e
    IF raw >= 2000000 THEN Log2Floor(raw \div 2, e + 1)
    ELSE IF raw < 1000000 THEN Log2Floor(raw * 2, e - 1)
    ELSE e
\* rem doubled k times modulo 10^6, with the last bit shifted out; up to ten
\* doublings are made at a time
PowersOfTwo == <<2, 4, 8, 16, 32, 64, 128, 256, 512, 1024>>
RECURSIVE DoubledRemainder(_, _, _)
DoubledRemainder(rem, bit, k) ==
    IF k = 0 THEN <<rem, bit>>
    ELSE LET m == PowersOfTwo[Min(k, 10)]
         IN  DoubledRemainder((m * rem) % 1000000, ((m * rem) \div 1000000) % 2,
                              k - Min(k, 10))
FloatError(raw) ==
    LET tail == IF raw % 1000000 = 0 THEN <<0, 0>>
                ELSE DoubledRemainder(raw % 1000000, (raw \div 1000000) % 2,
                                      52 - Log2Floor(raw, 0))
    IN  CASE tail[1] = 0 -> 0
          [] tail[1] < 500000 -> -1
          [] tail[1] > 500000 -> 1
          [] OTHER -> IF tail[2] = 0 THEN -1 ELSE 1

Format2fTruncated(raw) ==
    LET cents == raw \div 10000
    IN  <<cents \div 100, (cents % 100) \div 10, cents % 10>>

\* f"{float(close_price):.2f}": the double of the price, correctly rounded to
\* hundredths (half to even on the double's exact value), rendered as the
\* integer part and exactly two decimal digits.  raw is the price in
\* millionths, raw >= 0.
Format2f(raw) ==
    LET down == raw \div 10000
        rest == raw % 10000
        up == CASE rest > 5000 -> TRUE
                [] rest < 5000 -> FALSE
                [] OTHER -> \/ FloatError(raw) > 0
                            \/ FloatError(raw) = 0 /\ down % 2 = 1
        cents == IF up THEN down + 1 ELSE down
    IN  <<cents \div 100, (cents % 100) \div 10, cents % 10>>

\* Mutant: only a missing info counts as invalid
InfoInvalidNoInfo(info) == ~info.present

\* stock_data.info is None or stock_data.info.get('symbol') is None
InfoInvalid(info) ==
    \/ ~info.present
    \/ info.symbol \in {Missing, None}

\* stock_data.info.get('longName', ticker)
CompanyName(info, ticker) ==
    IF info.longName = Missing THEN ticker ELSE info.longName

\* Values of yf.Ticker(ticker).info: None, or a dict in which each of the keys
\* symbol and longName is missing, None or a string
NoInfo == [present |-> FALSE, symbol |-> Missing, longName |-> Missing]
NamedInfo == [present |-> TRUE, symbol |-> "SYM", longName |-> "Display Name"]
Infos ==
    {NoInfo} \cup [present : {TRUE}, symbol : {Missing, None, "SYM"},
                   longName : {Missing, None, "Display Name"}]

\* Frames yf.download can return: up to MaxPoints rows (timestamp, Close)
Points(Prices) == [timestamp : Timestamps, Close : Prices]
RECURSIVE SeqsUpTo(_, _)
SeqsUpTo(S, n) ==
    IF n = 0 THEN {<<>>}
    ELSE LET shorter == SeqsUpTo(S, n - 1)
         IN  shorter \cup {Append(s, x) : s \in {t \in shorter : Len(t) = n - 1}, x \in S}
Frames(Prices) == SeqsUpTo(Points(Prices), MaxPoints)
OnePoint == <<[timestamp |-> 1, Close |-> 150123449]>>

\* Mutant: the lookup never matches a stored ticker
StockIdsNoMatch(ticker) == {}

\* SELECT id FROM stocks WHERE ticker = %s
StockIds(ticker) == {stocks[i].id : i \in {j \in DOMAIN stocks : stocks[j].ticker = ticker}}

\* SELECT id FROM quotes WHERE stock = %s AND timestamp = %s
QuoteRows(stock_id, timestamp) ==
    {q \in BagToSet(quotes) : q.stock = stock_id /\ q.timestamp = timestamp}

\* Mutant: the query never matches a stored row (say, a timestamp written in one
\* form and compared in another)
QuoteExistsNoMatch(stock_id, timestamp) == FALSE

\* Mutant: the query leaves out the stock (WHERE timestamp = %s)
QuoteExistsAnyStock(stock_id, timestamp) ==
    \E q \in BagToSet(quotes) : q.timestamp = timestamp

\* _quote_exists: result is not None
QuoteExistsResult(stock_id, timestamp) == QuoteRows(stock_id, timestamp) # {}

\* Mutant: the aggregate is MIN instead of MAX
MinTimestamp(stock_id) ==
    LET ts == {q.timestamp : q \in {x \in BagToSet(quotes) : x.stock = stock_id}}
    IN  IF ts = {} THEN Null ELSE CHOOSE m \in ts : \A t \in ts : m <= t

\* Mutant: the aggregate is over the quotes of all stocks
MaxTimestampAnyStock(stock_id) ==
    LET ts == {q.timestamp : q \in BagToSet(quotes)}
    IN  IF ts = {} THEN Null ELSE CHOOSE m \in ts : \A t \in ts : t <= m

\* SELECT MAX(timestamp) FROM quotes WHERE stock = %s
MaxTimestamp(stock_id) ==
    LET ts == {q.timestamp : q \in {x \in BagToSet(quotes) : x.stock = stock_id}}
    IN  IF ts = {} THEN Null ELSE CHOOSE m \in ts : \A t \in ts : t <= m

\* Mutant: the last sub-window is not cut at end_date
ChunkEndUncut(current_start, end_date) == current_start + chunk_size

\* Mutant: the sub-window ends where it starts
ChunkEndAtStart(current_start, end_date) == Min(current_start, end_date)

\* min(current_start + timedelta(days=chunk_size), end_date)
ChunkEnd(current_start, end_date) == Min(current_start + chunk_size, end_date)

\* the id the store gives a new row of a table with an auto-increment id
AutoIncrement(table) == Len(table) + 1

\* Mutant: the id of the oldest row is returned
LastRowIdOldest(table) == table[1].id

\* cursor.lastrowid after the INSERT: the id of the row inserted last
LastRowId(table) == table[Len(table)].id

\* Mutant: an insert is counted as a skip
CountInsertedAsSkipped(rec) == [rec EXCEPT !.skipped_count = @ + 1]

\* skipped_count += 1 and inserted_count += 1
CountSkipped(rec) == [rec EXCEPT !.skipped_count = @ + 1]
CountInserted(rec) == [rec EXCEPT !.inserted_count = @ + 1]

\* dict assignment d[k] = v and d.get(k, 0)
DictSetAnew(d, k, v) == [x \in {k} |-> v]
DictSet(d, k, v) == [x \in DOMAIN d \cup {k} |-> IF x = k THEN v ELSE d[x]]
DictGet(d, k) == IF k \in DOMAIN d THEN d[k] ELSE 0
EmptyDict == [x \in {} |-> 0]

-----------------------------------------------------------------------------
(* Process state *)

\* History of the points of one ticker in one run: returned by the provider;
\* and, of those processed, present in / absent from the quotes table when
\* processed; covered (their key was stored when the process started), and what
\* was done with the covered ones; repeated (not covered, yet present);
\* repriced (present with a price other than the point's).
NoAcct == [returned |-> 0, present |-> 0, absent |-> 0, covered |-> 0,
           covered_inserted |-> 0, covered_skipped |-> 0, repeated |-> 0,
           repriced |-> 0]

\* StockQuoteUpdater.__init__, with the locals of run and _fetch_quotes unset
NewUpdater(days) ==
    [pc |-> "connect",
     lookback_days |-> days,
     db_connection |-> "None",
     quotes_inserted |-> EmptyDict,
     quotes_skipped |-> EmptyDict,
     ti |-> 0,                      \* position of the for loop in tickers
     stock_id |-> Null,
     stock_data |-> {},             \* the info of yf.Ticker(ticker), once fetched
     company_name |-> None,
     start_date |-> 0, end_date |-> 0,
     current_start |-> 0, current_end |-> 0,
     data |-> <<>>,                 \* rows of the frame not yet iterated
     inserted_count |-> 0, skipped_count |-> 0,
     max_timestamp |-> Null,
     report |-> EmptyDict,
     exit_status |-> Unset,
     error |-> "",
     \* history of this process
     opens |-> 0, closes |-> 0,     \* connect calls and close calls that returned
     disconnects |-> 0,             \* calls of _disconnect_from_database
     calls |-> <<>>,                \* external calls of the current _get_stock_id
     windows |-> <<>>,              \* (start, end) of the downloads of the current ticker
     acct |-> NoAcct,               \* points of the current ticker, by store content
     served |-> {},                 \* quote keys the provider returned in this run
     at_start |-> quotes,           \* the quotes table when the process started
     marks |-> [i \in DOMAIN stocks |-> stocks[i].lastUpdate],  \* and each lastUpdate
     argv |-> <<>>,                 \* the --days option this process was started with
     spans |-> <<>>,                \* (start_date, end_date) of each ticker fetched so far
     results |-> <<>>,              \* what each download of the current ticker returned
     log |-> <<>>,                  \* (event, position in tickers): resolve, fetch, write, refresh
     tally |-> {},                  \* per finished ticker: rows found absent, rows found present
     done |-> {}]                   \* tickers whose _fetch_quotes returned

IdleUpdater == [NewUpdater(0) EXCEPT !.pc = "idle"]

Terminal == {"idle", "done", "exited", "usage"}

ticker(r) == tickers[u[r].ti]

Key(stock_id, timestamp) == <<stock_id, timestamp>>

AbortLoggedOnly(rec, err) ==
    [rec EXCEPT !.pc = "finally", !.exit_status = 0, !.error = err]

AbortWithoutFinally(rec, err) ==
    [rec EXCEPT !.pc = "exited", !.exit_status = 1, !.error = err]

AbortThisTickerOnly(rec, err) ==
    [rec EXCEPT !.error = err, !.exit_status = 1,
                !.pc = IF rec.ti < NumTickers THEN "select_stock" ELSE "finally",
                !.ti = IF rec.ti < NumTickers THEN rec.ti + 1 ELSE rec.ti]

\* except Exception in run: sys.exit(1), then the finally clause
Abort(rec, err) == [rec EXCEPT !.pc = "finally", !.exit_status = 1, !.error = err]

BeginWindowFullLookback(rec, id) ==
    [rec EXCEPT !.pc = "chunk",
                !.stock_id = id,
                !.end_date = now,
                !.start_date = now - MaxDays,
                !.current_start = now - MaxDays,
                !.spans = Append(@, <<now - MaxDays, now>>),
                !.inserted_count = 0,
                !.skipped_count = 0]

\* _fetch_quotes lines 229-238, after _get_stock_id returned id
BeginWindow(rec, id) ==
    [rec EXCEPT !.pc = "chunk",
                !.stock_id = id,
                !.end_date = now,
                !.start_date = now - rec.lookback_days,
                !.current_start = now - rec.lookback_days,
                !.spans = Append(@, <<now - rec.lookback_days, now>>),
                !.inserted_count = 0,
                !.skipped_count = 0]

NextTickerUnresolved(rec) ==
    IF rec.ti < Len(tickers)
    THEN [rec EXCEPT !.pc = "chunk", !.ti = rec.ti + 1,
                     !.calls = <<>>, !.windows = <<>>, !.acct = NoAcct,
                     !.results = <<>>, !.stock_data = {}]
    ELSE [rec EXCEPT !.pc = "summary"]

NextTickerBackwards(rec) ==
    IF rec.ti # 1
    THEN [rec EXCEPT !.pc = "select_stock",
                     !.ti = IF rec.ti = 0 THEN Len(tickers) ELSE rec.ti - 1,
                     !.calls = <<>>, !.windows = <<>>, !.acct = NoAcct,
                     !.results = <<>>, !.stock_data = {}]
    ELSE [rec EXCEPT !.pc = "summary"]

\* the for loop of run: the next ticker, or the summary after the last
NextTicker(rec) ==
    IF rec.ti < Len(tickers)
    THEN [rec EXCEPT !.pc = "select_stock", !.ti = rec.ti + 1,
                     !.calls = <<>>, !.windows = <<>>, !.acct = NoAcct,
                     !.results = <<>>, !.stock_data = {}]
    ELSE [rec EXCEPT !.pc = "summary"]

\* _fetch_quotes returned for the current ticker
TickerDone(rec) ==
    NextTicker([rec EXCEPT !.done = rec.done \cup {tickers[rec.ti]},
                           !.tally = rec.tally \cup {<<tickers[rec.ti], rec.acct.absent,
                                                      rec.acct.present>>}])

\* end of one iteration of "for timestamp, row in data.iterrows()"
NextRow(rec) ==
    LET rest == Tail(rec.data)
    IN  IF rest = <<>>
        THEN [rec EXCEPT !.data = rest, !.pc = "chunk",
                         !.current_start = rec.current_end]
        ELSE [rec EXCEPT !.data = rest, !.pc = "quote_exists"]

-----------------------------------------------------------------------------
(* Actions *)

Init ==
    /\ stocks = <<>>
    /\ quotes = EmptyBag
    /\ now = 0
    /\ u = [r \in Runners |-> [NewUpdater(0) EXCEPT !.pc = "idle", !.at_start = EmptyBag]]
    /\ runs = 0
    /\ first = {}
    /\ lost = {}
    /\ ids = EmptyDict

\* argparse: --days with type=int and default=28; argv is <<>> when the option
\* is not given and <<d>> when it is given as d
ParseDays(argv) == IF argv = <<>> THEN DefaultDays ELSE argv[1]
Given(S) == {<<d>> : d \in S}

\* main: the two checks that end in parser.error
DaysRejectedBelowZero(days) == days < 0 \/ days > MaxDays
DaysRejected(days) == days <= 0 \/ days > MaxDays

\* main(): parse and validate --days, construct the updater, call run()
Main(r, E) ==
    /\ u[r].pc \in Terminal
    /\ runs < MaxRuns
    /\ runs' = runs + 1
    /\ \E argv \in E.argv :
         LET days == ParseDays(argv)
         IN  IF DaysRejected(days)
             THEN u' = [u EXCEPT ![r] = [IdleUpdater EXCEPT !.pc = "usage", !.exit_status = 2,
                                                            !.lookback_days = days,
                                                            !.argv = argv]]
             ELSE u' = [u EXCEPT ![r] = [NewUpdater(days) EXCEPT !.argv = argv]]
    /\ UNCHANGED <<stocks, quotes, now, first, lost, ids>>

\* StockQuoteUpdater(lookback_days=d).run(), without main's check of the range
Construct(r, E) ==
    /\ u[r].pc \in Terminal
    /\ runs < MaxRuns
    /\ runs' = runs + 1
    /\ \E d \in E.lookbacks : u' = [u EXCEPT ![r] = NewUpdater(d)]
    /\ UNCHANGED <<stocks, quotes, now, first, lost, ids>>

\* _connect_to_database succeeds; the for loop starts
ConnectToDatabase(r) ==
    /\ u[r].pc = "connect"
    /\ u' = [u EXCEPT ![r] = NextTicker([@ EXCEPT !.db_connection = "open",
                                                   !.opens = @ + 1])]
    /\ UNCHANGED <<stocks, quotes, now, runs, first, lost, ids>>

\* history: _get_stock_id(t) returned id; the first return per ticker is kept
Returned(t, id) == IF DictGet(ids, t) = Null THEN DictSet(ids, t, id) ELSE ids

\* _get_stock_id: SELECT id FROM stocks WHERE ticker = %s; fetchone
SelectStock(r) ==
    /\ u[r].pc = "select_stock"
    /\ LET rec == [u[r] EXCEPT !.calls = Append(@, "select"),
                               !.log = Append(@, <<"resolve", u[r].ti>>)]
       IN  IF StockIds(ticker(r)) # {}
           THEN \E id \in StockIds(ticker(r)) :
                    /\ u' = [u EXCEPT ![r] = BeginWindow(rec, id)]
                    /\ ids' = Returned(ticker(r), id)
           ELSE /\ u' = [u EXCEPT ![r] = [rec EXCEPT !.pc = "validate"]]
                /\ UNCHANGED ids
    /\ UNCHANGED <<stocks, quotes, now, runs, first, lost>>

\* _get_stock_id: yf.Ticker(ticker).info, the validity test and the name; for
\* an invalid ticker cursor.close() is called before the exception is raised,
\* and when it raises mysql.connector.Error that error is the one that leaves
\* _get_stock_id
ValidateTicker(r, E) ==
    /\ u[r].pc = "validate"
    /\ \E info \in E.infos :
         LET rec == [u[r] EXCEPT !.calls = Append(@, "info"), !.stock_data = {info}]
         IN  IF InfoInvalid(info)
             THEN \E close_raises \in BOOLEAN :
                      u' = [u EXCEPT ![r] = Abort(rec, IF close_raises THEN "StoreError"
                                                       ELSE "InvalidTicker")]
             ELSE u' = [u EXCEPT ![r] = [rec EXCEPT !.pc = "insert_stock",
                                 !.company_name = CompanyName(info, ticker(r))]]
    /\ UNCHANGED <<stocks, quotes, now, runs, first, lost, ids>>

\* the stocks table after INSERT INTO stocks (ticker, name) VALUES (%s, %s); commit
StockInserted(r) ==
    Append(stocks, [id |-> AutoIncrement(stocks), ticker |-> ticker(r),
                    name |-> u[r].company_name, lastUpdate |-> Null])

\* the quotes table after INSERT INTO quotes (stock, price, timestamp); commit
NewQuote(r) ==
    LET row == Head(u[r].data)
    IN  [stock |-> u[r].stock_id, price |-> Format2f(row.Close),
         timestamp |-> row.timestamp]
QuoteInsertedTwice(r) == quotes (+) SetToBag({NewQuote(r)}) (+) SetToBag({NewQuote(r)})
QuoteInserted(r) == quotes (+) SetToBag({NewQuote(r)})
FirstInserted(r) ==
    IF \E x \in first : Key(x.stock, x.timestamp) = Key(NewQuote(r).stock, NewQuote(r).timestamp)
    THEN first ELSE first \cup {NewQuote(r)}

StockUpdatedWithName(r) ==
    [i \in DOMAIN stocks |->
        IF stocks[i].id = u[r].stock_id
        THEN [stocks[i] EXCEPT !.lastUpdate = u[r].max_timestamp, !.name = stocks[i].ticker]
        ELSE stocks[i]]

\* the stocks table after UPDATE stocks SET lastUpdate = %s WHERE id = %s; commit
StockUpdated(r) ==
    [i \in DOMAIN stocks |->
        IF stocks[i].id = u[r].stock_id
        THEN [stocks[i] EXCEPT !.lastUpdate = u[r].max_timestamp]
        ELSE stocks[i]]

\* _get_stock_id: INSERT INTO stocks (ticker, name); commit; lastrowid
InsertStock(r) ==
    /\ u[r].pc = "insert_stock"
    /\ LET rec == [u[r] EXCEPT !.calls = @ \o <<"insert", "commit">>]
       IN  /\ stocks' = StockInserted(r)
           /\ u' = [u EXCEPT ![r] = BeginWindow(rec, LastRowId(StockInserted(r)))]
           /\ ids' = Returned(ticker(r), LastRowId(StockInserted(r)))
    /\ UNCHANGED <<quotes, now, runs, first, lost>>

\* What yf.download can return under inputs E: a frame (a DataFrame, empty or
\* not) or, when E.missing, None
Results(E) ==
    {[kind |-> IF f = <<>> THEN "empty" ELSE "rows", rows |-> f] : f \in E.frames}
        \cup (IF E.missing THEN {[kind |-> "None", rows |-> <<>>]} ELSE {})

\* while current_start < end_date: yf.download of the next sub-window, and the
\* test "if not data.empty", which raises AttributeError when data is None
Download(r, E) ==
    /\ u[r].pc = "chunk"
    /\ u[r].current_start < u[r].end_date
    /\ \E data \in Results(E) :
         LET frame == data.rows
             current_end == ChunkEnd(u[r].current_start, u[r].end_date)
             rec == [u[r] EXCEPT
                        !.current_end = current_end,
                        !.windows = Append(@, <<u[r].current_start, current_end>>),
                        !.results = Append(@, data.kind),
                        !.log = Append(@, <<"fetch", u[r].ti>>),
                        !.acct.returned = @ + Len(frame),
                        !.served = @ \cup {Key(u[r].stock_id, frame[i].timestamp) :
                                               i \in DOMAIN frame}]
         IN  CASE data.kind = "None" ->
                    u' = [u EXCEPT ![r] = Abort(rec, "AttributeError")]
               [] data.kind = "empty" ->
                    u' = [u EXCEPT ![r] = [rec EXCEPT !.current_start = current_end]]
               [] OTHER ->
                    u' = [u EXCEPT ![r] = [rec EXCEPT !.data = frame, !.pc = "quote_exists"]]
    /\ UNCHANGED <<stocks, quotes, now, runs, first, lost, ids>>

RecordCountsRefreshIfInserted(r) ==
    /\ u[r].pc = "chunk"
    /\ ~(u[r].current_start < u[r].end_date)
    /\ LET rec == [u[r] EXCEPT
                !.quotes_inserted = DictSet(@, ticker(r), u[r].inserted_count),
                !.quotes_skipped = DictSet(@, ticker(r), u[r].skipped_count)]
       IN  u' = [u EXCEPT ![r] = IF u[r].inserted_count > 0
                                 THEN [rec EXCEPT !.pc = "select_max"]
                                 ELSE TickerDone(rec)]
    /\ UNCHANGED <<stocks, quotes, now, runs, first, lost, ids>>

\* the while loop ends: the counts of the ticker are recorded
RecordCounts(r) ==
    /\ u[r].pc = "chunk"
    /\ ~(u[r].current_start < u[r].end_date)
    /\ u' = [u EXCEPT ![r] = [@ EXCEPT
                !.pc = "select_max",
                !.quotes_inserted = DictSet(@, ticker(r), u[r].inserted_count),
                !.quotes_skipped = DictSet(@, ticker(r), u[r].skipped_count)]]
    /\ UNCHANGED <<stocks, quotes, now, runs, first, lost, ids>>

\* _quote_exists for the next row of the frame, and the skip branch
QuoteExists(r) ==
    /\ u[r].pc = "quote_exists"
    /\ LET row == Head(u[r].data)
           key == Key(u[r].stock_id, row.timestamp)
           here == QuoteRows(u[r].stock_id, row.timestamp) # {}
           old == \E q \in BagToSet(u[r].at_start) :
                      Key(q.stock, q.timestamp) = key
           rec == [u[r] EXCEPT
                      !.acct.present = IF here THEN @ + 1 ELSE @,
                      !.acct.absent = IF here THEN @ ELSE @ + 1,
                      !.acct.covered = IF old THEN @ + 1 ELSE @,
                      !.acct.repeated = IF here /\ ~old THEN @ + 1 ELSE @,
                      !.acct.repriced =
                          IF \E q \in QuoteRows(u[r].stock_id, row.timestamp) :
                                 q.price # Format2f(row.Close)
                          THEN @ + 1 ELSE @]
       IN  IF QuoteExistsResult(u[r].stock_id, row.timestamp)
           THEN u' = [u EXCEPT ![r] = NextRow(CountSkipped([rec EXCEPT
                         !.acct.covered_skipped = IF old THEN @ + 1 ELSE @]))]
           ELSE u' = [u EXCEPT ![r] = [rec EXCEPT !.pc = "insert_quote"]]
    /\ UNCHANGED <<stocks, quotes, now, runs, first, lost, ids>>

\* _insert_quote: INSERT INTO quotes (stock, price, timestamp); commit
InsertQuote(r) ==
    /\ u[r].pc = "insert_quote"
    /\ LET row == Head(u[r].data)
           key == Key(u[r].stock_id, row.timestamp)
           old == \E x \in BagToSet(u[r].at_start) :
                      Key(x.stock, x.timestamp) = key
       IN  /\ quotes' = QuoteInserted(r)
           /\ first' = FirstInserted(r)
           /\ u' = [u EXCEPT ![r] = NextRow(CountInserted([@ EXCEPT
                       !.log = Append(@, <<"write", u[r].ti>>),
                       !.acct.covered_inserted = IF old THEN @ + 1 ELSE @]))]
    /\ UNCHANGED <<stocks, now, runs, lost, ids>>

\* _update_stock_last_update: SELECT MAX(timestamp) FROM quotes WHERE stock = %s
SelectMax(r) ==
    /\ u[r].pc = "select_max"
    /\ LET m == MaxTimestamp(u[r].stock_id)
           rec == [u[r] EXCEPT !.log = Append(@, <<"refresh", u[r].ti>>)]
       IN  IF m # Null
           THEN u' = [u EXCEPT ![r] = [rec EXCEPT !.pc = "update_stock", !.max_timestamp = m]]
           ELSE u' = [u EXCEPT ![r] = TickerDone(rec)]
    /\ UNCHANGED <<stocks, quotes, now, runs, first, lost, ids>>

\* _update_stock_last_update: UPDATE stocks SET lastUpdate = %s WHERE id = %s; commit
UpdateStock(r) ==
    /\ u[r].pc = "update_stock"
    /\ stocks' = StockUpdated(r)
    /\ u' = [u EXCEPT ![r] = TickerDone(@)]
    /\ UNCHANGED <<quotes, now, runs, first, lost, ids>>

\* run: the summary after the last ticker
Summary(r) ==
    /\ u[r].pc = "summary"
    /\ u' = [u EXCEPT ![r] = [@ EXCEPT
                !.pc = "finally",
                !.exit_status = 0,
                !.report = [t \in {tickers[i] : i \in DOMAIN tickers} |->
                               <<DictGet(u[r].quotes_inserted, t),
                                 DictGet(u[r].quotes_skipped, t)>>]]]
    /\ UNCHANGED <<stocks, quotes, now, runs, first, lost, ids>>

\* run: finally, _disconnect_from_database: the connection is closed if there
\* is one and is_connected() answers True; a connection that was lost answers
\* False and is left as it is.  Both calls are made outside any try: when
\* is_connected() or close() raises, the error leaves run and the process ends
\* with status 1 and the connection as it was.
Disconnect(r) ==
    /\ u[r].pc = "finally"
    /\ \E is_connected \in BOOLEAN, raises \in BOOLEAN :
         LET fault == u[r].db_connection = "open" /\ raises
             close == u[r].db_connection = "open" /\ is_connected /\ ~fault
         IN  u' = [u EXCEPT ![r] = [@ EXCEPT
                !.pc = IF u[r].exit_status = 0 /\ ~fault THEN "done" ELSE "exited",
                !.exit_status = IF fault THEN 1 ELSE @,
                !.db_connection = CASE fault -> @
                                    [] close -> "closed"
                                    [] @ = "open" /\ ~is_connected -> "not connected"
                                    [] OTHER -> @,
                !.closes = IF close THEN @ + 1 ELSE @,
                !.disconnects = @ + 1]]
    /\ lost' = IF u[r].exit_status = 0 THEN lost ELSE lost \cup u[r].served
    /\ UNCHANGED <<stocks, quotes, now, runs, first, ids>>

\* the steps of run before the finally clause in which a store call is made;
\* at validate it is the cursor.close() of the invalid-ticker path, which
\* ValidateTicker makes after the provider has answered
StorePcs == {"connect", "select_stock", "validate", "insert_stock", "quote_exists",
             "insert_quote", "select_max", "update_stock"}

StoreErrorSwallowed(r) ==
    /\ u[r].pc \in StorePcs \ {"connect", "validate"}
    /\ u[r].error = ""
    /\ u' = [u EXCEPT ![r].error = "StoreError"]
    /\ UNCHANGED <<stocks, quotes, now, runs, first, lost, ids>>

\* Mutant: the error rolls back what the process has written to quotes
StoreErrorRollsBack(r) ==
    /\ u[r].pc \in StorePcs \ {"validate"}
    /\ quotes' = u[r].at_start
    /\ u' = [u EXCEPT ![r] = Abort(@, "StoreError")]
    /\ UNCHANGED <<stocks, now, runs, first, lost, ids>>

\* a store call raises mysql.connector.Error: logged, re-raised, nothing committed
StoreError(r) ==
    /\ u[r].pc \in StorePcs \ {"validate"}
    /\ u' = [u EXCEPT ![r] = Abort(@, "StoreError")]
    /\ UNCHANGED <<stocks, quotes, now, runs, first, lost, ids>>

\* a writing store call raises mysql.connector.Error after its commit went
\* through (the error comes from commit's reply or from cursor.close())
LateStoreError(r) ==
    /\ u[r].pc \in {"insert_stock", "insert_quote", "update_stock"}
    /\ stocks' = CASE u[r].pc = "insert_stock" -> StockInserted(r)
                   [] u[r].pc = "update_stock" -> StockUpdated(r)
                   [] OTHER -> stocks
    /\ quotes' = IF u[r].pc = "insert_quote" THEN QuoteInserted(r) ELSE quotes
    /\ first' = IF u[r].pc = "insert_quote" THEN FirstInserted(r) ELSE first
    /\ u' = [u EXCEPT ![r] = Abort(@, "StoreError")]
    /\ UNCHANGED <<now, runs, lost, ids>>

ProviderErrorSkipsWindow(r) ==
    /\ u[r].pc = "chunk" /\ u[r].current_start < u[r].end_date
    /\ u[r].error = ""
    /\ u' = [u EXCEPT ![r] = [@ EXCEPT
                !.error = "ProviderError",
                !.log = Append(@, <<"failed", u[r].ti>>),
                !.current_end = ChunkEnd(u[r].current_start, u[r].end_date),
                !.current_start = ChunkEnd(u[r].current_start, u[r].end_date)]]
    /\ UNCHANGED <<stocks, quotes, now, runs, first, lost, ids>>

\* yf.Ticker(...).info or yf.download raises; current_end of the sub-window
\* is assigned before the download is called
ProviderError(r) ==
    /\ \/ u[r].pc = "validate"
       \/ u[r].pc = "chunk" /\ u[r].current_start < u[r].end_date
    /\ u' = [u EXCEPT ![r] = Abort([@ EXCEPT
                !.log = Append(@, <<"failed", u[r].ti>>),
                !.current_end = IF u[r].pc = "chunk"
                                THEN ChunkEnd(u[r].current_start, u[r].end_date)
                                ELSE @],
                "ProviderError")]
    /\ UNCHANGED <<stocks, quotes, now, runs, first, lost, ids>>

\* time passes
Tick ==
    /\ now < MaxNow
    /\ now' = now + 1
    /\ UNCHANGED <<stocks, quotes, u, runs, first, lost, ids>>

-----------------------------------------------------------------------------
(* Specifications *)

\* The inputs of a specification: the --days options, the info dicts and the
\* frames the provider can answer with.
Step(r, E) ==
    \/ Main(r, E)
    \/ ConnectToDatabase(r)
    \/ SelectStock(r)
    \/ ValidateTicker(r, E)
    \/ InsertStock(r)
    \/ Download(r, E)
    \/ RecordCounts(r)
    \/ QuoteExists(r)
    \/ InsertQuote(r)
    \/ SelectMax(r)
    \/ UpdateStock(r)
    \/ Summary(r)
    \/ Disconnect(r)
    \/ StoreError(r)
    \/ LateStoreError(r)
    \/ ProviderError(r)

\* Ingestion: one runner, processes one after the other, one sub-window per
\* ticker, two closing prices
Ingest == [missing |-> FALSE, argv |-> Given({0, 1, 29}), infos |-> {NoInfo, NamedInfo},
           frames |-> Frames(RawPrices)]
Next == Step(1, Ingest)
Spec == Init /\ [][Next]_vars

\* Ingestion over two sub-windows per ticker, one closing price
Chunked == [missing |-> FALSE, argv |-> Given({1, 8}), infos |-> {NoInfo, NamedInfo},
            frames |-> Frames({150123449})]
NextChunks == Step(1, Chunked)
SpecChunks == Init /\ [][NextChunks]_vars

\* Symbol resolution: every shape of the provider's info, frames of at most one row
Resolving == [missing |-> FALSE, argv |-> Given({1}), infos |-> Infos, frames |-> {<<>>, OnePoint}]
NextResolve == Step(1, Resolving)
SpecResolve == Init /\ [][NextResolve]_vars

\* Windows: every --days option and its absence, a moving clock, frames of at most one row
Windowing == [missing |-> TRUE, argv |-> {<<>>} \cup Given(-1..(MaxDays + 1)), infos |-> {NoInfo, NamedInfo},
              frames |-> {<<>>, OnePoint}]
NextWindow == Step(1, Windowing) \/ Tick
SpecWindow == Init /\ [][NextWindow]_vars

\* Two updater processes at once on the same store: their steps interleave
\* between any two external calls; named metadata, one row per frame
Racing == [missing |-> FALSE, argv |-> Given({1}), infos |-> {NamedInfo}, frames |-> {OnePoint}]
NextRace == Step(1, Racing) \/ Step(2, Racing)
SpecRace == Init /\ [][NextRace]_vars

\* Prices: one-row frames whose closing price is at, just below or just above a
\* hundredth or the middle between two hundredths
PriceGrid ==
    {base + d : base \in {0, 1010000, 150120000, 150990000},
                d \in {0, 1, 3449, 4999, 5000, 5001, 9999}}
Pricing == [missing |-> FALSE, argv |-> Given({1}), infos |-> {NamedInfo},
            frames |-> {<<[timestamp |-> 1, Close |-> p]>> : p \in PriceGrid}]
NextPrices == Step(1, Pricing)
SpecPrices == Init /\ [][NextPrices]_vars

\* the steps of a process that was started: each call returns or fails
Proceed(r, E) ==
    \/ ConnectToDatabase(r)
    \/ SelectStock(r)
    \/ ValidateTicker(r, E)
    \/ InsertStock(r)
    \/ Download(r, E)
    \/ RecordCounts(r)
    \/ QuoteExists(r)
    \/ InsertQuote(r)
    \/ SelectMax(r)
    \/ UpdateStock(r)
    \/ Summary(r)
    \/ Disconnect(r)
    \/ StoreError(r)
    \/ LateStoreError(r)
    \/ ProviderError(r)

\* Termination: updaters constructed directly, with lookbacks inside and
\* outside main's range, over one and two sub-windows; every call that is
\* made returns or fails
Direct == [missing |-> TRUE, lookbacks |-> {-1, 0, 1, 8}, infos |-> {NoInfo, NamedInfo},
           frames |-> {<<>>, OnePoint}]
NextDirect == Construct(1, Direct) \/ Proceed(1, Direct)
SpecDirect == Init /\ [][NextDirect]_vars /\ WF_vars(Proceed(1, Direct))

-----------------------------------------------------------------------------
(* Vocabulary of the properties *)

KeyOf(q) == Key(q.stock, q.timestamp)
KeysOf(bag) == {KeyOf(q) : q \in BagToSet(bag)}
RowsOfKey(bag, k) == {q \in BagToSet(bag) : KeyOf(q) = k}

\* exactly one row of the quotes table has key k
StoredOnce(k) ==
    \E q \in BagToSet(quotes) : RowsOfKey(quotes, k) = {q} /\ CopiesIn(q, quotes) = 1

\* the stocks rows of a ticker
RowsOfTicker(t) == {stocks[i] : i \in {j \in DOMAIN stocks : stocks[j].ticker = t}}

\* the lastUpdate of stocks row s is the newest timestamp stored for it, or is
\* unset when no quote is stored for it
Fresh(s) ==
    LET ts == {q.timestamp : q \in {x \in BagToSet(quotes) : x.stock = s.id}}
    IN  IF ts = {} THEN s.lastUpdate = Null
        ELSE s.lastUpdate \in ts /\ \A t \in ts : t <= s.lastUpdate

\* the loop over the sub-windows of the current ticker has ended and its counts
\* are recorded
Counted(r) == u[r].pc \in {"select_max", "update_stock"}

\* _get_stock_id has returned for the current ticker
Resolved(r) ==
    u[r].pc \in {"chunk", "quote_exists", "insert_quote", "select_max", "update_stock"}

\* the quote rows that were stored when process r started are all still
\* there, and no row has been added under any of their keys
CoveredRowsUnchanged(r) ==
    \A k \in KeysOf(u[r].at_start) :
        \A q \in RowsOfKey(quotes, k) \cup RowsOfKey(u[r].at_start, k) :
            CopiesIn(q, quotes) = CopiesIn(q, u[r].at_start)

-----------------------------------------------------------------------------
(* Properties *)

\* C1: in every state reached by single-runner runs, successful or aborted,
\* from a store without duplicates, the quotes table holds at most one row per
\* (stock id, timestamp), although nothing in the store enforces it, also when
\* a frame repeats a timestamp.
C1_OneQuotePerKey == \A k \in KeysOf(quotes) : StoredOnce(k)

\* C1 witness: after an aborted run, a second run has ended in which the
\* provider repeated a timestamp that was not stored before.
C1_Witness ==
    /\ runs = 2 /\ lost # {}
    /\ u[1].pc = "done"
    /\ u[1].acct.repeated > 0
    /\ KeysOf(quotes) # KeysOf(u[1].at_start)

\* C2 as stated: when, after a run that completed, a ticker is ingested again
\* and the provider returns stored points again, no quote is inserted for a
\* timestamp that was already stored, the skipped count equals the number of
\* points with such a timestamp, and the rows of those timestamps are unchanged.
C2_SkippedEqualsCovered ==
    (runs >= 2 /\ lost = {} /\ Counted(1) /\ u[1].acct.covered > 0) =>
        /\ u[1].acct.covered_inserted = 0
        /\ u[1].skipped_count = u[1].acct.covered
        /\ CoveredRowsUnchanged(1)

\* C2 amended: ... every point with an already stored timestamp is skipped, and
\* the skipped count is the number of those points plus the number of repeated
\* occurrences, in this run's frames, of timestamps that were not stored before.
C2_Idempotence ==
    Counted(1) =>
        /\ u[1].acct.covered_inserted = 0
        /\ u[1].acct.covered_skipped = u[1].acct.covered
        /\ u[1].skipped_count = u[1].acct.covered + u[1].acct.repeated
        /\ CoveredRowsUnchanged(1)

\* C2 witness: a second run got stored points again together with a new one.
C2_Witness ==
    /\ runs = 2 /\ Counted(1)
    /\ u[1].acct.covered > 0
    /\ u[1].inserted_count > 0
    /\ u[1].acct.repeated = 0

\* C3: when a run has completed, every point the provider returned in it is
\* stored exactly once, as the row that was written first under its key (so
\* are the points of earlier aborted runs, if this run got them again), and
\* the lastUpdate of every stock is its newest stored timestamp.
C3_RerunAfterAbort ==
    u[1].pc = "done" =>
        /\ \A k \in u[1].served \cup (IF lost \subseteq u[1].served THEN lost ELSE {}) :
              StoredOnce(k) /\ RowsOfKey(quotes, k) \subseteq first
        /\ \A i \in DOMAIN stocks : Fresh(stocks[i])

\* C3 witness: a run aborted after it had written one of its points and before
\* it wrote another; the next run got both again and completed.
C3_Witness ==
    /\ u[1].pc = "done"
    /\ lost \subseteq u[1].served
    /\ \E k \in lost : k \in KeysOf(u[1].at_start)
    /\ \E k \in lost : k \notin KeysOf(u[1].at_start)

\* C4: when the sub-windows of a ticker are done, its recorded inserted count
\* is the number of points that were absent from the store when processed, its
\* skipped count the number that were present, and the two add up to the
\* number of points returned over all sub-windows.
C4_CountAccounting ==
    Counted(1) =>
        /\ ticker(1) \in DOMAIN u[1].quotes_inserted \cap DOMAIN u[1].quotes_skipped
        /\ u[1].quotes_inserted[ticker(1)] = u[1].acct.absent
        /\ u[1].quotes_skipped[ticker(1)] = u[1].acct.present
        /\ u[1].quotes_inserted[ticker(1)] + u[1].quotes_skipped[ticker(1)]
              = u[1].acct.returned

\* C4 witness: the store had timestamp 1; over two sub-windows the provider
\* returned 1 and 2: one inserted, one skipped, lastUpdate about to become 2.
C4_Witness ==
    /\ u[1].pc = "update_stock"
    /\ Len(u[1].windows) = 2
    /\ KeysOf(u[1].at_start) = {Key(u[1].stock_id, 1)}
    /\ u[1].quotes_inserted[ticker(1)] = 1
    /\ u[1].quotes_skipped[ticker(1)] = 1
    /\ u[1].max_timestamp = 2

\* C5: the lastUpdate of every stock whose ticker the run has finished is the
\* newest timestamp stored for it, and is unset when it has no quotes.
C5_Freshness ==
    \A t \in u[1].done : \A s \in RowsOfTicker(t) : Fresh(s)

\* C5 witness: a run has ended; one stock has quotes at both timestamps, the
\* other has none.
C5_Witness ==
    /\ u[1].pc = "done"
    /\ \E s \in RowsOfTicker(tickers[1]) :
          /\ s.lastUpdate = 2
          /\ {Key(s.id, 1), Key(s.id, 2)} \subseteq KeysOf(quotes)
    /\ \E s \in RowsOfTicker(tickers[2]) :
          /\ s.lastUpdate = Null
          /\ \A k \in KeysOf(quotes) : k[1] # s.id

\* C6: for every lookback L in 1..28, when the sub-window loop of a ticker has
\* ended there were ceil(L/7) downloads; every sub-window is non-empty and at
\* most 7 days long and starts where the one before it ended; the first starts
\* L days before the sampled now (end_date) and the last ends at it.
C6_ChunkCoverage ==
    (Counted(1) /\ u[1].lookback_days \in 1..28) =>
        LET w == u[1].windows
            L == u[1].lookback_days
        IN  /\ Len(w) = (L + 6) \div 7
            /\ \A i \in DOMAIN w : w[i][1] < w[i][2] /\ w[i][2] - w[i][1] <= 7
            /\ \A i \in DOMAIN w : i > 1 => w[i][1] = w[i - 1][2]
            /\ w[1][1] = u[1].end_date - L
            /\ w[Len(w)][2] = u[1].end_date
            /\ u[1].end_date <= now

\* C6 witness: a lookback of 10 days was fetched as 7 days and then 3 days.
C6_Witness ==
    /\ Counted(1)
    /\ u[1].lookback_days = 10
    /\ u[1].windows = <<<<u[1].end_date - 10, u[1].end_date - 3>>,
                         <<u[1].end_date - 3, u[1].end_date>>>>

\* what the claims call an invalid answer of the provider: no metadata, or
\* metadata without a symbol
ReportedInvalid(info) == ~info.present \/ info.symbol \in {Missing, None}

\* C7 as stated: once the provider has reported the current ticker (which was not in the
\* store) as invalid, the run has failed with the invalid-ticker error after a
\* lookup and the provider query only, and the stocks table holds no row for
\* the ticker.
C7_UnknownTickerRejected ==
    \A info \in u[1].stock_data :
        ReportedInvalid(info) =>
            /\ u[1].error = "InvalidTicker"
            /\ u[1].pc \in {"finally", "exited"}
            /\ u[1].exit_status = 1
            /\ u[1].calls = <<"select", "info">>
            /\ RowsOfTicker(ticker(1)) = {}

\* C7, amended: once the provider has reported the current ticker (which was
\* not in the store) as invalid, the run has failed after a lookup and the
\* provider query only, with the invalid-ticker error or, when closing the
\* cursor raised, with the store error; the stocks table holds no row for the
\* ticker.
C7_UnknownTickerNotRegistered ==
    \A info \in u[1].stock_data :
        ReportedInvalid(info) =>
            /\ u[1].error \in {"InvalidTicker", "StoreError"}
            /\ u[1].pc \in {"finally", "exited"}
            /\ u[1].exit_status = 1
            /\ u[1].calls = <<"select", "info">>
            /\ RowsOfTicker(ticker(1)) = {}

\* C7 witness: a run ended on a ticker whose metadata had no symbol.
C7_Witness ==
    /\ u[1].pc = "exited"
    /\ u[1].error = "InvalidTicker"
    /\ \E info \in u[1].stock_data : info.present /\ info.symbol = None

\* C8 as stated: a ticker registered by this resolve has the provider's display
\* name when there is one, and the ticker itself as its name when the longName
\* key is missing or is None.
C8_RegistrationName ==
    (Resolved(1) /\ u[1].stock_data # {}) =>
        \A info \in u[1].stock_data : \A s \in RowsOfTicker(ticker(1)) :
            s.name = IF info.longName \in {Missing, None} THEN ticker(1)
                     ELSE info.longName

\* C9: when resolve has returned after a miss, it made one lookup, the provider
\* query and one committed insert; the stocks table holds exactly one row for
\* the ticker, with the name resolve computed, and resolve returned the id of
\* that row.
C9_MissRegistersOnce ==
    (Resolved(1) /\ u[1].stock_data # {}) =>
        /\ u[1].calls = <<"select", "info", "insert", "commit">>
        /\ \E s \in RowsOfTicker(ticker(1)) :
              /\ RowsOfTicker(ticker(1)) = {s}
              /\ s.name = u[1].company_name
              /\ s.id = u[1].stock_id
        /\ Cardinality({i \in DOMAIN stocks : stocks[i].id = u[1].stock_id}) = 1

\* C9 witness: the second ticker was registered and got id 2.
C9_Witness ==
    /\ Resolved(1) /\ u[1].stock_data # {}
    /\ u[1].ti = 2 /\ u[1].stock_id = 2
    /\ Len(stocks) = 2

\* C10: a lookup that finds the ticker in the store, and does not fail, ends
\* resolve at once: the stored id is returned, the provider has not been
\* asked, and stocks and quotes are unchanged.
C10_HitHasNoEffect ==
    [][(u[1].pc = "select_stock" /\ RowsOfTicker(ticker(1)) # {}
           /\ u'[1].pc # "finally")
       => /\ u'[1].pc = "chunk"
          /\ u'[1].stock_id \in {s.id : s \in RowsOfTicker(ticker(1))}
          /\ u'[1].calls = <<"select">>
          /\ u'[1].stock_data = {}
          /\ UNCHANGED <<stocks, quotes>>]_vars

\* C10 witness: in a second run the second ticker was found with id 2.
C10_Witness ==
    /\ runs = 2
    /\ u[1].pc = "chunk" /\ u[1].windows = <<>>
    /\ u[1].calls = <<"select">>
    /\ u[1].ti = 2 /\ u[1].stock_id = 2
    /\ quotes # EmptyBag

\* C11: with one runner, the stocks table holds at most one row per ticker, and
\* whenever _get_stock_id has returned for a ticker, it returned the id that
\* the first successful _get_stock_id of that ticker returned, in this process
\* or in an earlier one; that id is the id of the ticker's row.
C11_SymbolIdentity ==
    /\ \A i, j \in DOMAIN stocks : stocks[i].ticker = stocks[j].ticker => i = j
    /\ Resolved(1) =>
          /\ u[1].stock_id # Null
          /\ u[1].stock_id = DictGet(ids, ticker(1))
          /\ \A s \in RowsOfTicker(ticker(1)) : s.id = u[1].stock_id

\* C11 witness: the second ticker, registered with id 2 by the first process,
\* was resolved again by the second process.
C11_Witness ==
    /\ runs = 2 /\ Resolved(1)
    /\ u[1].ti = 2 /\ u[1].stock_data = {}
    /\ DictGet(ids, ticker(1)) = 2 /\ u[1].stock_id = 2

\* C12: a step that checks a point whose key is stored counts it as skipped and
\* writes nothing; one that checks a point whose key is not stored counts
\* nothing and goes on to the insert; an insert that returns adds exactly one
\* row (stock id, formatted price, timestamp) under a key that was not stored
\* and counts the point as inserted; no step adds more than one quote row, and
\* no step both raises the skipped count and changes the quotes table.
C12_WriterContract ==
    [][LET rec == u[1]
           row == Head(rec.data)
           stored == RowsOfKey(quotes, Key(rec.stock_id, row.timestamp)) # {}
           new == [stock |-> rec.stock_id, price |-> Format2f(row.Close),
                   timestamp |-> row.timestamp]
           returned == u'[1].pc # "finally"
       IN  /\ (rec.pc = "quote_exists" /\ returned /\ stored) =>
                 /\ u'[1].skipped_count = rec.skipped_count + 1
                 /\ u'[1].inserted_count = rec.inserted_count
                 /\ u'[1].pc # "insert_quote"
                 /\ UNCHANGED <<stocks, quotes>>
           /\ (rec.pc = "quote_exists" /\ returned /\ ~stored) =>
                 /\ u'[1].pc = "insert_quote"
                 /\ u'[1].skipped_count = rec.skipped_count
                 /\ u'[1].inserted_count = rec.inserted_count
                 /\ UNCHANGED <<stocks, quotes>>
           /\ (rec.pc = "insert_quote" /\ returned) =>
                 /\ ~stored
                 /\ quotes' = quotes (+) SetToBag({new})
                 /\ u'[1].inserted_count = rec.inserted_count + 1
                 /\ u'[1].skipped_count = rec.skipped_count
                 /\ UNCHANGED stocks
           /\ BagCardinality(quotes') <= BagCardinality(quotes) + 1
           /\ (rec.pc \in {"quote_exists", "insert_quote"}
                  /\ u'[1].skipped_count > rec.skipped_count) => UNCHANGED quotes
      ]_vars

\* C12 witness: of the two points of a frame, one was skipped and one inserted.
C12_Witness ==
    /\ Counted(1)
    /\ u[1].windows # <<>>
    /\ u[1].acct.present = 1 /\ u[1].acct.absent = 1
    /\ u[1].skipped_count = 1 /\ u[1].inserted_count = 1
    /\ BagCardinality(quotes) >= 2

\* a step of process r has raised in this run
Failed(r) == u[r].error # ""

\* C13: once a step of the run has failed, and until another process is
\* started, the run does not move to another ticker, makes no further lookup,
\* provider call or download, and writes nothing to stocks or quotes: all that
\* is left is the close of the connection.
C13_FailFast ==
    [][(Failed(1) /\ runs' = runs) =>
          /\ Failed(1)'
          /\ u'[1].pc \in {"finally", "exited"}
          /\ u'[1].ti = u[1].ti
          /\ u'[1].calls = u[1].calls
          /\ u'[1].windows = u[1].windows
          /\ u'[1].done = u[1].done
          /\ u'[1].quotes_inserted = u[1].quotes_inserted
          /\ UNCHANGED <<stocks, quotes, ids>>
      ]_vars

\* C13 witness: a run that had stored a quote of the first ticker failed on it
\* and ended; the second ticker has no stocks row.
C13_Witness ==
    /\ runs = 1 /\ u[1].pc = "exited" /\ Failed(1)
    /\ u[1].ti = 1 /\ u[1].ti < Len(tickers)
    /\ quotes # EmptyBag
    /\ RowsOfTicker(tickers[2]) = {}

\* process r is between its connect and its finally clause
Running(r) ==
    u[r].pc \in {"select_stock", "validate", "insert_stock", "chunk", "quote_exists",
                 "insert_quote", "select_max", "update_stock", "summary"}

\* process r has ended after run was called
Ended(r) == u[r].pc \in {"done", "exited"}

\* C14 as stated: a run that opened the connection has, when it has ended,
\* successfully or not, closed it exactly once.
C14_ClosedExactlyOnce ==
    (Ended(1) /\ u[1].opens = 1) => u[1].closes = 1

\* is_connected() or close() raised in the finally clause of process r: the
\* process has ended and its connection was left open
DisconnectFailed(r) ==
    Ended(r) /\ u[r].disconnects = 1 /\ u[r].db_connection = "open"

\* C14, amended: the connection is opened at most once per run, and exactly
\* once before any ticker is processed; while tickers are processed it is open
\* and has not been closed; a run that ended, successfully or not, has closed
\* it exactly once if it still reported being connected, and has not closed it
\* if it did not, or if is_connected() or close() raised: then it is left open
\* and the process has ended with status 1; a run that ended without opening
\* it failed at the connect; nothing is run on a closed connection.
C14_ConnectionLifecycle ==
    /\ u[1].opens <= 1 /\ u[1].closes <= u[1].opens
    /\ (u[1].ti >= 1 \/ Running(1)) => u[1].opens = 1
    /\ (Running(1) \/ u[1].pc = "finally") =>
          /\ u[1].closes = 0 /\ u[1].disconnects = 0
          /\ u[1].db_connection = (IF u[1].opens = 1 THEN "open" ELSE "None")
    /\ Ended(1) => u[1].disconnects = 1
    /\ Ended(1) =>
          \/ u[1].opens = 1 /\ u[1].closes = 1 /\ u[1].db_connection = "closed"
          \/ u[1].opens = 1 /\ u[1].closes = 0 /\ u[1].db_connection = "not connected"
          \/ /\ u[1].opens = 1 /\ u[1].closes = 0 /\ DisconnectFailed(1)
             /\ u[1].pc = "exited" /\ u[1].exit_status = 1
          \/ /\ u[1].opens = 0 /\ u[1].closes = 0 /\ u[1].db_connection = "None"
             /\ u[1].ti = 0 /\ u[1].error = "StoreError" /\ u[1].pc = "exited"
    /\ u[1].db_connection \in {"closed", "not connected"} => Ended(1)

\* C14 witness: a run that failed on its second ticker has closed the
\* connection it had opened.
C14_Witness ==
    /\ u[1].pc = "exited" /\ Failed(1)
    /\ u[1].ti = 2
    /\ u[1].opens = 1 /\ u[1].closes = 1 /\ u[1].db_connection = "closed"

\* C15 as stated: a step that raises sets the exit status to 1 at once and
\* nothing resets it; a run has ended with exit status 1 exactly if one of its
\* steps raised (the connect, a lookup, a provider call, a write or the
\* refresh), and has returned with status 0 exactly if none did, after its
\* summary.
C15_ExitStatus ==
    /\ Failed(1) => u[1].exit_status = 1 /\ u[1].pc \in {"finally", "exited"}
    /\ Ended(1) =>
          /\ u[1].exit_status \in {0, 1}
          /\ u[1].exit_status = 1 <=> Failed(1)
          /\ u[1].pc = "exited" <=> Failed(1)
          /\ u[1].exit_status = 0 =>
                /\ u[1].pc = "done" /\ u[1].ti = Len(tickers)
                /\ u[1].done = {tickers[i] : i \in DOMAIN tickers}
    /\ (Running(1) \/ u[1].pc = "connect") => u[1].exit_status = Unset /\ ~Failed(1)

\* C15, amended: a step that raises sets the exit status to 1 at once and
\* nothing resets it; a run has ended with exit status 1 exactly if one of its
\* steps raised (the connect, a lookup, a provider call, a write or the
\* refresh) or is_connected() or close() raised in the finally clause, and has
\* returned with status 0 exactly if nothing raised, after its summary and with
\* its connection not left open.
C15_ExitStatusWithDisconnect ==
    /\ Failed(1) => u[1].exit_status = 1 /\ u[1].pc \in {"finally", "exited"}
    /\ Ended(1) =>
          /\ u[1].exit_status \in {0, 1}
          /\ u[1].exit_status = 1 <=> (Failed(1) \/ DisconnectFailed(1))
          /\ u[1].pc = "exited" <=> (Failed(1) \/ DisconnectFailed(1))
          /\ u[1].exit_status = 0 =>
                /\ u[1].pc = "done" /\ u[1].ti = Len(tickers)
                /\ u[1].done = {tickers[i] : i \in DOMAIN tickers}
                /\ u[1].db_connection \in {"closed", "not connected"}
    /\ (Running(1) \/ u[1].pc = "connect") => u[1].exit_status = Unset /\ ~Failed(1)

\* C15 witness: the download of the second ticker raised after the first
\* ticker's quotes were stored, and the process has ended with status 1.
C15_Witness ==
    /\ u[1].pc = "exited" /\ u[1].exit_status = 1
    /\ u[1].error = "ProviderError" /\ u[1].ti = 2
    /\ u[1].stock_id = 2
    /\ quotes # EmptyBag

\* C16: when a run has completed successfully, its report has an entry for
\* every ticker of the list and for nothing else, and the entry of a ticker is
\* (inserted, skipped) as counted while that ticker was processed in this run:
\* the number of its returned rows that were not stored and were inserted, and
\* the number that were found stored.
C16_FinalReport ==
    u[1].pc = "done" =>
        /\ DOMAIN u[1].report = {tickers[i] : i \in DOMAIN tickers}
        /\ \A i \in DOMAIN tickers :
              \E e \in u[1].tally :
                  /\ e[1] = tickers[i]
                  /\ u[1].report[tickers[i]] = <<e[2], e[3]>>
        /\ \A e \in u[1].tally : u[1].report[e[1]] = <<e[2], e[3]>>

\* C16 witness: a successful run reports one insert and one skip for the
\* first ticker and two inserts for the second.
C16_Witness ==
    /\ u[1].pc = "done"
    /\ u[1].report[tickers[1]] = <<1, 1>>
    /\ u[1].report[tickers[2]] = <<2, 0>>

\* C17: every step leaves every quote row that is stored in the table, as many
\* times as it was there (no row is deleted or changed, the table only
\* grows); and a step that checks a point whose key is stored with another
\* price than the point's leaves the quotes table as it is and does not go on
\* to an insert.
C17_QuoteImmutability ==
    [][/\ quotes \sqsubseteq quotes'
       /\ BagCardinality(quotes') >= BagCardinality(quotes)
       /\ (u[1].pc = "quote_exists"
             /\ \E q \in RowsOfKey(quotes, Key(u[1].stock_id, Head(u[1].data).timestamp)) :
                    q.price # Format2f(Head(u[1].data).Close))
            => quotes' = quotes /\ u'[1].pc # "insert_quote"
      ]_vars

\* C17 witness: the second process was given another price for the one
\* stored point of its ticker and skipped it; the table is as it was when
\* the process started.
C17_Witness ==
    /\ runs = 2 /\ Counted(1)
    /\ u[1].acct.repriced = 1 /\ u[1].acct.covered_skipped = 1
    /\ u[1].skipped_count = 1 /\ u[1].inserted_count = 0
    /\ quotes = u[1].at_start /\ quotes # EmptyBag

\* a key with two or more rows in the quotes table
Duplicated(bag, k) ==
    \E q \in RowsOfKey(bag, k) : CopiesIn(q, bag) > 1 \/ RowsOfKey(bag, k) # {q}

\* C18: with two processes interleaved on one store, a key of the quotes table
\* becomes duplicated only by the insert of a process that is past its
\* existence check for that key, which found nothing, while the key has been
\* stored in the meantime (by the other process); no key ever has more rows
\* than there are processes at once; and as long as only one of the two has
\* been started, no key is duplicated.  That the duplicate does occur is the
\* witness.
C18_DuplicatesOnlyByRace ==
    [][/\ \A k \in KeysOf(quotes') :
             (Duplicated(quotes', k) /\ ~Duplicated(quotes, k)) =>
                 \E r \in Runners :
                     /\ u[r].pc = "insert_quote" /\ u'[r].pc # "insert_quote"
                     /\ Key(u[r].stock_id, Head(u[r].data).timestamp) = k
                     /\ RowsOfKey(quotes, k) # {}
                     /\ k \notin KeysOf(u[r].at_start)
       /\ \A q \in BagToSet(quotes') :
             BagCardinality([x \in RowsOfKey(quotes', KeyOf(q)) |-> CopiesIn(x, quotes')])
                 <= Cardinality(Runners)
       /\ (u'[1].pc = "idle" \/ u'[2].pc = "idle") =>
             \A k \in KeysOf(quotes') : ~Duplicated(quotes', k)
      ]_vars

\* C18 witness: two processes have worked on the same store, and the quotes
\* table holds two rows for one (stock id, timestamp).
C18_Witness ==
    /\ u[1].pc # "idle" /\ u[2].pc # "idle"
    /\ \E k \in KeysOf(quotes) : Duplicated(quotes, k)

\* C19: a store error is raised only by a store operation (the connect, the
\* lookup by ticker, the stocks insert, the existence check, the quote insert,
\* the max-timestamp query, the lastUpdate update); the step in which it is
\* raised takes the run to its finally clause with exit status 1; and from then
\* on, until another process is started, stocks and quotes are not written
\* and the error stands.
C19_StoreErrorsPropagate ==
    [][/\ (u[1].error = "" /\ u'[1].error = "StoreError") =>
             /\ u[1].pc \in StorePcs
             /\ u'[1].pc = "finally"
             /\ u'[1].exit_status = 1
       /\ (u[1].error = "StoreError" /\ runs' = runs) =>
             /\ u'[1].error = "StoreError"
             /\ u'[1].exit_status = 1
             /\ u'[1].pc \in {"finally", "exited"}
             /\ UNCHANGED <<stocks, quotes>>
      ]_vars

\* C19 witness: the refresh of the first ticker raised a store error after
\* its quotes were stored and counted, and the process has ended; the
\* ticker's lastUpdate was not written.
C19_Witness ==
    /\ u[1].pc = "exited" /\ u[1].error = "StoreError"
    /\ u[1].ti = 1
    /\ DictGet(u[1].quotes_inserted, tickers[1]) = 1
    /\ tickers[1] \notin u[1].done
    /\ quotes # EmptyBag
    /\ \A s \in RowsOfTicker(tickers[1]) : s.lastUpdate = Null

\* C20: a process started with --days d, or without the option (then d is 28),
\* has ended in the usage error exactly if d <= 0 or d > 28, and then no
\* updater was run: no connection, no ticker, no store or provider call; and
\* it runs an updater exactly if d is in 1..28, with lookback d.
C20_LookbackBound ==
    u[1].pc # "idle" =>
        LET d == IF u[1].argv = <<>> THEN 28 ELSE u[1].argv[1]
        IN  /\ u[1].pc = "usage" <=> (d <= 0 \/ d > 28)
            /\ u[1].pc = "usage" =>
                  /\ u[1].exit_status = 2
                  /\ u[1].opens = 0 /\ u[1].db_connection = "None"
                  /\ u[1].ti = 0 /\ u[1].calls = <<>> /\ u[1].windows = <<>>
                  /\ quotes = u[1].at_start
            /\ u[1].pc # "usage" =>
                  u[1].lookback_days = d /\ u[1].lookback_days \in 1..28

\* C20 witness: after a process that registered the tickers, a process
\* started with --days 0 ended in the usage error.
C20_Witness ==
    /\ runs = 2 /\ u[1].pc = "usage"
    /\ u[1].argv = <<0>>
    /\ Len(stocks) = Len(tickers)

\* price, as written to the store, is hundredths h rendered with two decimals
Renders(price, h) ==
    /\ Len(price) = 3
    /\ price[1] >= 0 /\ price[2] \in 0..9 /\ price[3] \in 0..9
    /\ 100 * price[1] + 10 * price[2] + price[3] = h

\* C21: every quote row written has as its price the closing price (in
\* millionths) rounded to a nearest hundredth, rendered as an integer part and
\* exactly two decimal digits; 150.123449 is written as 150.12 and 150.999999
\* as 151.00.
C21_PriceNormalization ==
    [][\A q \in BagToSet(quotes') :
          CopiesIn(q, quotes') > CopiesIn(q, quotes) =>
              LET raw == Head(u[1].data).Close
              IN  /\ u[1].pc = "insert_quote"
                  /\ \E h \in (raw \div 10000)..(raw \div 10000 + 1) :
                        /\ Renders(q.price, h)
                        /\ h * 10000 - raw <= 5000
                        /\ raw - h * 10000 <= 5000
                  /\ raw = 150123449 => q.price = <<150, 1, 2>>
                  /\ raw = 150999999 => q.price = <<151, 0, 0>>
      ]_vars

\* C21 witness: the two tickers' quotes were written with the prices 150.12
\* and 151.00.
C21_Witness ==
    /\ \E q \in BagToSet(quotes) : q.stock = 1 /\ q.price = <<150, 1, 2>>
    /\ \E q \in BagToSet(quotes) : q.stock = 2 /\ q.price = <<151, 0, 0>>
    /\ u[1].pc = "select_max" /\ u[1].inserted_count = 1

\* C22: every step keeps every stocks row with its id, ticker and name; a step
\* adds a stocks row only when it is the insert of _get_stock_id for a ticker
\* that has no row, and it adds one row, for that ticker, with no lastUpdate;
\* a step changes a lastUpdate only when it is the update of the refresh, and
\* only in the row of the stock being refreshed; a step that writes a quote
\* leaves the stocks table unchanged.
C22_SymbolRowsFrame ==
    [][/\ Len(stocks') >= Len(stocks)
       /\ \A i \in DOMAIN stocks :
             /\ stocks'[i].id = stocks[i].id
             /\ stocks'[i].ticker = stocks[i].ticker
             /\ stocks'[i].name = stocks[i].name
       /\ Len(stocks') > Len(stocks) =>
             /\ u[1].pc = "insert_stock"
             /\ RowsOfTicker(ticker(1)) = {}
             /\ Len(stocks') = Len(stocks) + 1
             /\ stocks'[Len(stocks')].ticker = ticker(1)
             /\ stocks'[Len(stocks')].lastUpdate = Null
             /\ \A i \in DOMAIN stocks : stocks'[i] = stocks[i]
       /\ \A i \in DOMAIN stocks :
             stocks'[i].lastUpdate # stocks[i].lastUpdate =>
                 /\ u[1].pc = "update_stock"
                 /\ stocks[i].id = u[1].stock_id
                 /\ stocks[i].ticker = ticker(1)
       /\ quotes' # quotes => stocks' = stocks
      ]_vars

\* C22 witness: in the second process both tickers' rows, registered by the
\* first, are there with their names and the first one's lastUpdate was moved
\* from 1 to 2 by the refresh.
C22_Witness ==
    /\ runs = 2 /\ Len(stocks) = 2
    /\ u[1].ti = 2 /\ u[1].stock_data = {}
    /\ tickers[1] \in u[1].done
    /\ \E q \in BagToSet(u[1].at_start) : q.stock = 1 /\ q.timestamp = 1
    /\ \A q \in BagToSet(u[1].at_start) : q.stock = 1 => q.timestamp = 1
    /\ stocks[1].lastUpdate = 2 /\ stocks[1].name = "Display Name"
    /\ stocks[1].ticker = tickers[1] /\ stocks[2].ticker = tickers[2]

\* where the processing of the current ticker of a process record stands
Phase(rec) ==
    CASE rec.pc \in {"select_stock", "validate", "insert_stock"} -> "Resolve"
      [] rec.pc \in {"chunk", "quote_exists", "insert_quote"} -> "FetchWrite"
      [] rec.pc \in {"select_max", "update_stock"} -> "Refresh"
      [] rec.pc \in {"finally", "exited"} /\ rec.error # "" -> "Failed"
      [] OTHER -> "Outside"

\* C23: the current ticker moves from Resolve to Fetch+Write to Refresh and
\* from there, done, to the Resolve of the next ticker or to the summary; from
\* each phase a failure leads to Failed and from nowhere else is Failed
\* entered; each download is of a sub-window not fetched before for this
\* ticker; while a ticker is in Resolve, and when Resolve has failed, nothing
\* was fetched for it, no step of its Resolve changes the quotes table or a
\* lastUpdate, and the ticker is not done.
C23_TickerStateMachine ==
    [][LET a == Phase(u[1])
           b == Phase(u'[1])
           same == u'[1].ti = u[1].ti /\ runs' = runs
           markers(t) == [i \in DOMAIN t |-> t[i].lastUpdate]
       IN  /\ a = "Resolve" =>
                 /\ b \in {"Resolve", "FetchWrite", "Failed"} /\ same
                 /\ u[1].windows = <<>> /\ u[1].acct = NoAcct
                 /\ quotes' = quotes
                 /\ SubSeq(markers(stocks'), 1, Len(stocks)) = markers(stocks)
                 /\ ticker(1) \notin u[1].done
                 /\ b = "Failed" =>
                       /\ u'[1].windows = <<>> /\ u'[1].acct = NoAcct
                       /\ ticker(1) \notin u'[1].done
                       /\ ticker(1) \notin DOMAIN u'[1].quotes_inserted
           /\ a = "FetchWrite" =>
                 /\ b \in {"FetchWrite", "Refresh", "Failed"} /\ same
                 /\ u[1].stock_id \in {s.id : s \in RowsOfTicker(ticker(1))}
                 /\ u'[1].windows # u[1].windows =>
                       /\ Len(u'[1].windows) = Len(u[1].windows) + 1
                       /\ \A i \in DOMAIN u[1].windows :
                             u[1].windows[i] # u'[1].windows[Len(u'[1].windows)]
                 /\ markers(stocks') = markers(stocks)
           /\ a = "Refresh" =>
                 /\ b \in {"Refresh", "Resolve", "Outside", "Failed"}
                 /\ quotes' = quotes
                 /\ b # "Resolve" => u'[1].windows = u[1].windows
                 /\ b = "Refresh" => same /\ u[1].pc = "select_max"
                 /\ b = "Resolve" =>
                       /\ u'[1].ti = u[1].ti + 1 /\ runs' = runs
                       /\ ticker(1) \in u'[1].done
                 /\ b = "Outside" =>
                       /\ u'[1].pc = "summary" /\ u[1].ti = Len(tickers)
                       /\ ticker(1) \in u'[1].done
           /\ (b = "Resolve" /\ a # "Resolve") =>
                 /\ a = "Refresh" \/ u[1].pc = "connect"
                 /\ u'[1].pc = "select_stock"
           /\ (b = "FetchWrite" /\ a # "FetchWrite") => a = "Resolve"
           /\ (b = "Refresh" /\ a # "Refresh") => a = "FetchWrite"
           /\ (b = "Failed" /\ a # "Failed") =>
                 a \in {"Resolve", "FetchWrite", "Refresh"} \/ u[1].pc = "connect"
      ]_vars

\* C23 witness: after the first ticker was fetched, written and refreshed, the
\* Resolve of the second failed on an invalid ticker; the run has ended
\* without a download for it.
C23_Witness ==
    /\ runs = 1 /\ u[1].pc = "exited" /\ u[1].error = "InvalidTicker"
    /\ u[1].ti = 2 /\ tickers[1] \in u[1].done
    /\ u[1].windows = <<>>
    /\ quotes # EmptyBag /\ stocks[1].lastUpdate # Null
    /\ Len(stocks) = 1

\* positions in the log of the events ev of the ticker at position i
Events(rec, ev, i) == {n \in DOMAIN rec.log : rec.log[n] = <<ev, i>>}

\* C24: when a run has completed successfully, every ticker has exactly one
\* refresh in the run's log; it comes after every download and every quote
\* write of that ticker, of which there is one download per sub-window, and
\* before the resolve of the next ticker; this is so whatever the counts of
\* the ticker are, (0, 0) and (0, skipped) included.
C24_RefreshOrdering ==
    u[1].pc = "done" =>
        \A i \in DOMAIN tickers :
            /\ Cardinality(Events(u[1], "refresh", i)) = 1
            /\ Cardinality(Events(u[1], "fetch", i)) = (u[1].lookback_days + 6) \div 7
            /\ Cardinality(Events(u[1], "write", i)) = u[1].report[tickers[i]][1]
            /\ \A n \in Events(u[1], "refresh", i) :
                  /\ \A m \in Events(u[1], "fetch", i) \cup Events(u[1], "write", i)
                                \cup Events(u[1], "resolve", i) : m < n
                  /\ \A m \in Events(u[1], "resolve", i + 1) : n < m

\* C24 witness: a second process completed; its first ticker was given only
\* a stored point, its second ticker none, and both were refreshed.
C24_Witness ==
    /\ runs = 2 /\ u[1].pc = "done"
    /\ u[1].report[tickers[1]] = <<0, 1>>
    /\ u[1].report[tickers[2]] = <<0, 0>>
    /\ Events(u[1], "refresh", 1) # {} /\ Events(u[1], "refresh", 2) # {}

\* C25: a download that raises takes the run to its finally clause at once,
\* with exit status 1, and leaves the counts as they were; the sub-window whose
\* download raised starts at current_start, which stays where it was, and is
\* not empty; from then on,
\* until another process is started, no download is made (neither of the
\* failed sub-window nor of a later one), no quote is written and no refresh
\* is made: the log ends with the failed call.
C25_ProviderFailureNoRetry ==
    [][/\ (u[1].pc = "chunk" /\ u[1].error = "" /\ u'[1].error = "ProviderError") =>
             /\ u'[1].pc = "finally" /\ u'[1].exit_status = 1
             /\ u'[1].log = Append(u[1].log, <<"failed", u[1].ti>>)
             /\ u'[1].windows = u[1].windows
             /\ u[1].current_start < u[1].end_date
             /\ u'[1].current_start = u[1].current_start
             /\ u'[1].current_start < u'[1].current_end
             /\ u'[1].current_end <= u[1].end_date
             /\ u'[1].current_end <= u[1].current_start + chunk_size
             /\ u'[1].inserted_count = u[1].inserted_count
             /\ u'[1].skipped_count = u[1].skipped_count
             /\ UNCHANGED <<stocks, quotes>>
       /\ (u[1].error = "ProviderError" /\ runs' = runs) =>
             /\ u'[1].log = u[1].log /\ u'[1].windows = u[1].windows
             /\ u'[1].current_start = u[1].current_start
             /\ u'[1].current_end = u[1].current_end
             /\ u'[1].pc \in {"finally", "exited"}
             /\ u'[1].inserted_count = u[1].inserted_count
             /\ u'[1].quotes_inserted = u[1].quotes_inserted
             /\ UNCHANGED <<stocks, quotes>>
      ]_vars

\* C25 witness: with a lookback of 8 days the first sub-window was fetched and
\* its point written, the download of the second raised, and the run has
\* ended with one sub-window fetched.
C25_Witness ==
    /\ u[1].pc = "exited" /\ u[1].error = "ProviderError"
    /\ u[1].lookback_days = 8 /\ Len(u[1].windows) = 1
    /\ u[1].current_start < u[1].end_date
    /\ u[1].current_start = u[1].windows[1][2]
    /\ u[1].current_end = u[1].end_date
    /\ u[1].inserted_count = 1
    /\ u[1].log[Len(u[1].log)] = <<"failed", u[1].ti>>
    /\ quotes # EmptyBag

\* C26 as stated: a download that returns an empty frame or no frame (None)
\* raises nothing: no existence check and no insert follow from it, the
\* counts and the tables stay as they are and the loop goes on after the
\* sub-window; and a ticker whose every sub-window returned an empty frame or
\* none has, when its loop has ended, all its sub-windows fetched and the counts
\* inserted 0 and skipped 0.
C26_EmptyOrMissingNotAnError ==
    [][/\ (Len(u'[1].results) = Len(u[1].results) + 1
              /\ u'[1].results[Len(u'[1].results)] \in {"empty", "None"}) =>
             /\ u'[1].error = "" /\ u'[1].pc = "chunk"
             /\ u'[1].current_start = u'[1].current_end
             /\ u'[1].current_end = u'[1].windows[Len(u'[1].windows)][2]
             /\ u'[1].inserted_count = u[1].inserted_count
             /\ u'[1].skipped_count = u[1].skipped_count
             /\ u'[1].acct = u[1].acct
             /\ UNCHANGED <<stocks, quotes>>
       /\ (Counted(1)' /\ \A i \in DOMAIN u'[1].results :
                               u'[1].results[i] \in {"empty", "None"}) =>
             /\ Len(u'[1].results) = (u'[1].lookback_days + 6) \div 7
             /\ u'[1].inserted_count = 0 /\ u'[1].skipped_count = 0
      ]_vars

\* C27 as stated: all tickers fetched in a run are fetched over the same
\* interval.
C27_WindowOncePerRun ==
    \A i, j \in DOMAIN u[1].spans : u[1].spans[i] = u[1].spans[j]

\* C27, amended: the interval is computed once per ticker.  It is lookback_days
\* long and ends at the clock's value when the ticker's resolve returned; a
\* later ticker's interval does not end before an earlier one's; and every
\* sub-window fetched for the current ticker lies in the current ticker's
\* interval, starting at its start and, when the loop has ended, ending at its
\* end, also when the clock has advanced since.
C27_WindowOncePerTicker ==
    LET sp == u[1].spans
        w == u[1].windows
    IN  /\ \A i \in DOMAIN sp : sp[i][1] = sp[i][2] - u[1].lookback_days
        /\ \A i, j \in DOMAIN sp : i < j => sp[i][2] <= sp[j][2]
        /\ \A i \in DOMAIN sp : sp[i][2] <= now
        /\ (Resolved(1) \/ Counted(1)) =>
              /\ Len(sp) = u[1].ti
              /\ sp[Len(sp)] = <<u[1].start_date, u[1].end_date>>
              /\ \A i \in DOMAIN w : sp[Len(sp)][1] <= w[i][1] /\ w[i][2] <= sp[Len(sp)][2]
              /\ w # <<>> => w[1][1] = sp[Len(sp)][1]
              /\ Counted(1) => w[Len(w)][2] = sp[Len(sp)][2]

\* C27 witness: the clock advanced while the first ticker was processed; the
\* second ticker's two sub-windows were fetched over a later interval than the
\* first's, and the clock has not advanced since its resolve.
C27_Witness ==
    /\ Counted(1) /\ u[1].ti = 2 /\ u[1].lookback_days = 8
    /\ Len(u[1].spans) = 2 /\ u[1].spans[1][2] < u[1].spans[2][2]
    /\ Len(u[1].windows) = 2
    /\ u[1].end_date = now

\* the positions in tickers of the resolves of a process, in the order made
ResolveOrder(rec) ==
    LET IsResolve(e) == e[1] = "resolve"
        resolves == SelectSeq(rec.log, IsResolve)
    IN  [n \in DOMAIN resolves |-> resolves[n][2]]

\* C28: in each of two processes run over the same ticker list, the n-th
\* resolve is of the n-th ticker of the list, so each ticker is resolved at
\* most once and both processes go through the list in the same order; a
\* ticker is resolved only when the one before it is done; and in the log of a
\* process no resolve, download, write or refresh of a ticker comes after one
\* of a later ticker.
C28_SequentialInListOrder ==
    /\ \A r \in Runners :
          /\ \A n \in DOMAIN ResolveOrder(u[r]) : ResolveOrder(u[r])[n] = n
          /\ \A i \in DOMAIN tickers : Cardinality(Events(u[r], "resolve", i)) <= 1
          /\ \A i \in DOMAIN tickers :
                (i > 1 /\ Events(u[r], "resolve", i) # {}) => tickers[i - 1] \in u[r].done
          /\ \A m, n \in DOMAIN u[r].log : m < n => u[r].log[m][2] <= u[r].log[n][2]
          /\ Running(r) /\ u[r].pc # "summary" =>
                /\ u[r].done = {tickers[i] : i \in 1..(u[r].ti - 1)}
                /\ Len(ResolveOrder(u[r])) \in {u[r].ti - 1, u[r].ti}
    /\ \A n \in DOMAIN ResolveOrder(u[1]) \cap DOMAIN ResolveOrder(u[2]) :
          ResolveOrder(u[1])[n] = ResolveOrder(u[2])[n]

\* C28 witness: two processes over the same list have both resolved both
\* tickers, one has completed and the other is still at its second ticker.
C28_Witness ==
    /\ ResolveOrder(u[1]) = <<1, 2>> /\ ResolveOrder(u[2]) = <<1, 2>>
    /\ u[1].pc = "done" /\ u[1].done = {tickers[1], tickers[2]}
    /\ Resolved(2) /\ u[2].done = {tickers[1]}

\* the timestamps of the quotes stored for stocks row s
StoredTimestamps(s) == {q.timestamp : q \in {x \in BagToSet(quotes) : x.stock = s.id}}

\* C29: in every state, also during a run and after an aborted one, the
\* lastUpdate of a stocks row is unset or is the timestamp of a quote stored
\* for that row, and no more than the newest timestamp stored for it.
C29_MarkerNeverAhead ==
    \A i \in DOMAIN stocks :
        stocks[i].lastUpdate # Null =>
            /\ stocks[i].lastUpdate \in StoredTimestamps(stocks[i])
            /\ \E m \in StoredTimestamps(stocks[i]) :
                  /\ \A t \in StoredTimestamps(stocks[i]) : t <= m
                  /\ stocks[i].lastUpdate <= m

\* C29 witness: a run aborted in the middle of the first ticker after storing
\* a newer quote for it; the ticker's lastUpdate, set by an earlier run, lags
\* behind, and the second ticker has quotes of its own.
C29_Witness ==
    /\ u[1].pc = "exited" /\ Failed(1) /\ u[1].ti = 1
    /\ Len(stocks) = 2
    /\ stocks[1].lastUpdate = 1 /\ 2 \in StoredTimestamps(stocks[1])
    /\ StoredTimestamps(stocks[2]) # {}

\* no row of stocks or quotes is removed by the step, and no stocks row is
\* changed in anything but its lastUpdate
RowsKept ==
    /\ quotes \sqsubseteq quotes'
    /\ \A i \in DOMAIN stocks :
          /\ i \in DOMAIN stocks'
          /\ [stocks'[i] EXCEPT !.lastUpdate = stocks[i].lastUpdate] = stocks[i]

\* the step in which the run of process 1 fails while at a ticker
FailsAtTicker == ~Failed(1) /\ Failed(1)' /\ runs' = runs /\ u[1].ti >= 1

\* C30 as stated: no step removes a stored row, and nothing is written once
\* the run has failed; the failing ticker has no entry in quotes_inserted and
\* quotes_skipped and no lastUpdate was written in the failing step.
C30_NoRollbackNoCounts ==
    [][/\ RowsKept
       /\ (Failed(1) /\ runs' = runs) => UNCHANGED <<stocks, quotes>>
       /\ FailsAtTicker =>
             /\ ticker(1) \notin DOMAIN u'[1].quotes_inserted
             /\ ticker(1) \notin DOMAIN u'[1].quotes_skipped
             /\ \A i \in DOMAIN stocks : stocks'[i].lastUpdate = stocks[i].lastUpdate
      ]_vars

\* C30, amended: no step removes a stored row, and nothing is written once the
\* run has failed.  The tickers before the failing one have their entries in
\* quotes_inserted and quotes_skipped.  The failing ticker is not done; it has
\* entries exactly if the failure is in its refresh, and they are then the
\* counts of its loop; its lastUpdate is not written, except by an UPDATE that
\* was committed before the error was raised.
C30_NoRollback ==
    [][/\ RowsKept
       /\ (Failed(1) /\ runs' = runs) => UNCHANGED <<stocks, quotes>>
       /\ FailsAtTicker =>
             /\ ticker(1) \notin u'[1].done
             /\ \A j \in 1..(u[1].ti - 1) :
                   tickers[j] \in DOMAIN u'[1].quotes_inserted \cap DOMAIN u'[1].quotes_skipped
             /\ ticker(1) \in DOMAIN u'[1].quotes_inserted <=> Counted(1)
             /\ ticker(1) \in DOMAIN u'[1].quotes_skipped <=> Counted(1)
             /\ Counted(1) =>
                   /\ u'[1].quotes_inserted[ticker(1)] = u[1].inserted_count
                   /\ u'[1].quotes_skipped[ticker(1)] = u[1].skipped_count
             /\ \A i \in DOMAIN stocks :
                   stocks'[i].lastUpdate # stocks[i].lastUpdate =>
                       /\ u[1].pc = "update_stock"
                       /\ stocks[i].id = u[1].stock_id
                       /\ stocks'[i].lastUpdate = u[1].max_timestamp
      ]_vars

\* C30 witness: the run failed in the refresh of the second ticker; the quotes
\* of both tickers are stored, the first ticker is done and refreshed, the
\* second has its counts recorded and its lastUpdate unset.
C30_Witness ==
    /\ u[1].pc = "exited" /\ Failed(1) /\ u[1].ti = 2
    /\ u[1].done = {tickers[1]}
    /\ DictGet(u[1].quotes_inserted, tickers[1]) = 1
    /\ tickers[2] \in DOMAIN u[1].quotes_inserted
    /\ u[1].quotes_inserted[tickers[2]] = 2
    /\ Len(stocks) = 2
    /\ stocks[1].lastUpdate # Null /\ stocks[2].lastUpdate = Null
    /\ Cardinality(StoredTimestamps(stocks[2])) = 2

\* C31: over one run after another, no step lowers the lastUpdate of a stocks
\* row, and none sets a lastUpdate that was set back to unset.
C31_MarkerMonotone ==
    [][\A i \in DOMAIN stocks :
          /\ i \in DOMAIN stocks'
          /\ stocks'[i].id = stocks[i].id
          /\ stocks[i].lastUpdate # Null =>
                /\ stocks'[i].lastUpdate # Null
                /\ stocks'[i].lastUpdate >= stocks[i].lastUpdate
      ]_vars

\* C31 witness: the second run stored a newer quote than the one the first
\* ticker had when the run started; its lastUpdate, set by the first run, was
\* raised by the refresh and the run is at the second ticker.
C31_Witness ==
    /\ runs = 2 /\ Running(1) /\ u[1].ti = 2
    /\ Len(u[1].marks) = 2 /\ u[1].marks[1] = 1
    /\ stocks[1].lastUpdate = 2
    /\ StoredTimestamps(stocks[1]) = {1, 2}

\* run was called for process 1 and nothing of it has been executed yet
Started(r) == u[r].pc = "connect"

\* process r has ended with every ticker done, or failed, and its connection
\* is not open
Finished(r) ==
    /\ \/ u[r].pc = "done" /\ u[r].done = {tickers[i] : i \in DOMAIN tickers}
       \/ u[r].pc = "exited" /\ Failed(r)
    /\ u[r].db_connection # "open"

\* a step of the sub-window loop of one ticker
InLoop ==
    /\ runs' = runs /\ u'[1].ti = u[1].ti
    /\ Phase(u[1]) = "FetchWrite" /\ Phase(u'[1]) = "FetchWrite"

\* the sub-window loop in a step of process 1: the loop never moves
\* current_start back, and when it moves it, it moves it forward to the end of
\* the sub-window just fetched; each download is of a non-empty sub-window that
\* starts at current_start, where the previous one ended, and ends no later
\* than end_date; when the loop has ended, current_start has reached end_date
\* if the lookback is positive, and with a lookback <= 0 no download was made
LoopAdvances ==
    /\ InLoop =>
          /\ u'[1].current_start >= u[1].current_start
          /\ u'[1].current_start # u[1].current_start =>
                /\ u'[1].current_start = u'[1].current_end
                /\ u'[1].windows # <<>>
                /\ u'[1].current_start = u'[1].windows[Len(u'[1].windows)][2]
    /\ (runs' = runs /\ u'[1].windows # u[1].windows /\ u'[1].windows # <<>>) =>
          LET n == Len(u'[1].windows)
              w == u'[1].windows[n]
          IN  /\ n = Len(u[1].windows) + 1
              /\ w[1] = u[1].current_start
              /\ w[1] < w[2] /\ w[2] <= u[1].end_date
              /\ n > 1 => w[1] = u[1].windows[n - 1][2]
    /\ Counted(1)' =>
          IF u'[1].lookback_days > 0
          THEN u'[1].current_start = u'[1].end_date
          ELSE u'[1].windows = <<>> /\ Events(u'[1], "fetch", u'[1].ti) = {}

\* process r has ended: with every ticker done or failed and its connection
\* not open, or, when is_connected() or close() raised, with status 1 and its
\* connection left open
FinishedOrLeftOpen(r) ==
    \/ Finished(r)
    \/ /\ DisconnectFailed(r)
       /\ u[r].pc = "exited" /\ u[r].exit_status = 1
       /\ Failed(r) \/ u[r].done = {tickers[i] : i \in DOMAIN tickers}

\* C32 as stated: with provider and store calls that each return or fail, the
\* sub-window loop advances as in LoopAdvances, and every run that was started
\* eventually has ended, and has then every ticker done or has failed, with
\* its connection not open in both cases.
C32_Termination ==
    /\ [][LoopAdvances]_vars
    /\ [](Ended(1) => Finished(1))
    /\ (Started(1) ~> Finished(1))

\* C32, amended: with provider and store calls that each return or fail, the
\* sub-window loop advances as in LoopAdvances, and every run that was started
\* eventually has ended, and has then every ticker done or has failed; its
\* connection is not open, unless is_connected() or close() raised in the
\* finally clause: then the process has ended with status 1 and the connection
\* is left open.
C32_TerminationOrLeftOpen ==
    /\ [][LoopAdvances]_vars
    /\ [](Ended(1) => FinishedOrLeftOpen(1))
    /\ (Started(1) ~> FinishedOrLeftOpen(1))

\* C32 witness: a run with a lookback of 8 days has ended with both tickers
\* done after two downloads for each, and its connection is closed.
C32_Witness ==
    /\ u[1].pc = "done" /\ u[1].lookback_days = 8
    /\ u[1].done = {tickers[i] : i \in DOMAIN tickers}
    /\ \A i \in DOMAIN tickers : Cardinality(Events(u[1], "fetch", i)) = 2
    /\ u[1].db_connection = "closed"

====
